---- MODULE Spec2Model ----
(***************************************************************************)
(* The subcommand selector of client/cli/src/commands/mod.rs: the enum     *)
(* Subcommand, the macro match_and_call and the thirteen forwarding        *)
(* methods of `impl CliConfiguration for Subcommand`.                      *)
(*                                                                         *)
(* The six concrete commands live in sibling modules (build_spec_cmd, ...) *)
(* that are consumed only through the CliConfiguration contract.  They are *)
(* modelled as deterministic stubs: a command answers a method with a      *)
(* sentinel that records who answered, which method, which arguments it    *)
(* received and the state of the outside world it read, or with the        *)
(* method's own error when the outside world is broken.                    *)
(***************************************************************************)
EXTENDS Naturals, Sequences, FiniteSets

\* Largest number of selector calls explored in one behaviour.
MaxCalls == 2

VARIABLES
    sel,        \* the Subcommand values alive in the process, by owner
    world,      \* the outside world the concrete commands read
    selCalls,   \* per contract method: calls made on a selector
    cmdCalls,   \* per contract method: invocations received by a concrete command
    last        \* the most recent selector call: inputs, result, invocations made

vars == <<sel, world, selCalls, cmdCalls, last>>

----------------------------------------------------------------------------
\* The data
----------------------------------------------------------------------------

\* The six variants of `enum Subcommand`.
Variants ==
    {"BuildSpec", "ExportBlocks", "ImportBlocks", "CheckBlock", "Revert", "PurgeChain"}

\* The payload type each variant wraps.
CmdTypeOf(v) ==
    CASE v = "BuildSpec"    -> "BuildSpecCmd"
      [] v = "ExportBlocks" -> "ExportBlocksCmd"
      [] v = "ImportBlocks" -> "ImportBlocksCmd"
      [] v = "CheckBlock"   -> "CheckBlockCmd"
      [] v = "Revert"       -> "RevertCmd"
      [] v = "PurgeChain"   -> "PurgeChainCmd"

CmdTypes == {CmdTypeOf(v) : v \in Variants}

\* A concrete command value: its type and the arguments it was parsed from
\* (here the one that is visible through the contract, the --dev flag).
Cmds == [type : CmdTypes, dev : BOOLEAN]

\* The thirteen methods of the CliConfiguration contract that Subcommand forwards.
Methods ==
    {"base_path", "is_dev", "database_config", "chain_id", "init", "pruning",
     "tracing_receiver", "tracing_targets", "state_cache_size", "wasm_method",
     "execution_strategies", "database_cache_size", "node_key"}

\* Owners of the two Subcommand values the process holds.
SelIds == {"a", "b"}

\* Argument domains.
Paths == {"/tmp/chain", "/bad"}
OptSizes == {<<>>, <<64>>}
RolesSet == {"FULL", "AUTHORITY"}
RootTypes == {"NodeCli", "OtherCli"}
NoRoot == "-"

\* States of the outside world (files, environment) a concrete command reads.
Worlds == {"w0", "w1", "broken"}

----------------------------------------------------------------------------
\* The concrete commands (sibling modules, seen only through the contract)
----------------------------------------------------------------------------

Ok(v) == [ok |-> TRUE, val |-> v]
Err(e) == [ok |-> FALSE, err |-> e]

\* The error each contract operation reports when it cannot resolve.
ErrMsg(method) ==
    CASE method = "base_path"            -> "unresolvable path"
      [] method = "is_dev"               -> "parse error"
      [] method = "database_config"      -> "invalid path"
      [] method = "chain_id"             -> "invalid chain spec"
      [] method = "init"                 -> "logging init failure"
      [] method = "pruning"              -> "invalid pruning settings"
      [] method = "tracing_receiver"     -> "invalid receiver"
      [] method = "tracing_targets"      -> "invalid filter syntax"
      [] method = "state_cache_size"     -> "invalid numeric input"
      [] method = "wasm_method"          -> "invalid method selection"
      [] method = "execution_strategies" -> "invalid strategy combination"
      [] method = "database_cache_size"  -> "invalid cache size"
      [] method = "node_key"             -> "invalid key material"

\* cmd.method::<root>(args) of a concrete command, evaluated in world w: a
\* sentinel naming the command, the method, the inputs received and the world
\* read; the method's error when the world is broken.
CmdMethod(cmd, method, args, root, w) ==
    IF w = "broken"
    THEN Err([msg |-> ErrMsg(method), by |-> cmd.type])
    ELSE Ok([by |-> cmd, method |-> method, args |-> args, root |-> root, world |-> w])

\* One invocation of a concrete command's method, as the command sees it:
\* whose command it is, what was asked, with what, and what it answered.
Invoke(owner, cmd, method, args, root) ==
    [owner |-> owner, cmd |-> cmd, method |-> method, args |-> args,
     root |-> root, world |-> world,
     ret |-> CmdMethod(cmd, method, args, root, world)]

----------------------------------------------------------------------------
\* enum Subcommand
----------------------------------------------------------------------------

BuildSpecCmd    == {c \in Cmds : c.type = "BuildSpecCmd"}
ExportBlocksCmd == {c \in Cmds : c.type = "ExportBlocksCmd"}
ImportBlocksCmd == {c \in Cmds : c.type = "ImportBlocksCmd"}
CheckBlockCmd   == {c \in Cmds : c.type = "CheckBlockCmd"}
RevertCmd       == {c \in Cmds : c.type = "RevertCmd"}
PurgeChainCmd   == {c \in Cmds : c.type = "PurgeChainCmd"}

\* A value of the enum: the tag and the one payload it wraps.
Variant(tag, cmd) == [variant |-> tag, cmd |-> cmd]

\* A Subcommand with a payload of any command type under any tag.
SubcommandUntyped ==
    {Variant(v, c) : v \in Variants, c \in Cmds}

\* pub enum Subcommand { BuildSpec(BuildSpecCmd), ..., PurgeChain(PurgeChainCmd) }
Subcommand ==
    {Variant("BuildSpec", c) : c \in BuildSpecCmd}
      \cup {Variant("ExportBlocks", c) : c \in ExportBlocksCmd}
      \cup {Variant("ImportBlocks", c) : c \in ImportBlocksCmd}
      \cup {Variant("CheckBlock", c) : c \in CheckBlockCmd}
      \cup {Variant("Revert", c) : c \in RevertCmd}
      \cup {Variant("PurgeChain", c) : c \in PurgeChainCmd}

----------------------------------------------------------------------------
\* macro_rules! match_and_call
----------------------------------------------------------------------------

\* What a forwarding method hands back: the value returned to the caller, the
\* invocations it made on concrete commands, and the Subcommand values after
\* the call (a method takes &self and writes nothing).
Forwarded(inv) == [ret |-> inv.ret, invoked |-> <<inv>>, store |-> sel]

\* --- Faulty variants of the macro, used to test the properties below ---

\* The PurgeChain arm names a fixed method instead of $method.
match_and_call_fixed_method(s, method, args) ==
    LET self == sel[s] IN
    IF self.variant = "PurgeChain"
    THEN Forwarded(Invoke(s, self.cmd, "base_path", <<>>, NoRoot))
    ELSE Forwarded(Invoke(s, self.cmd, method, args, NoRoot))

\* The command's error is replaced by an error of the dispatch layer.
match_and_call_wrapping(s, method, args) ==
    LET self == sel[s]
        inv == Invoke(s, self.cmd, method, args, NoRoot)
    IN  [ret |-> IF inv.ret.ok THEN inv.ret
                 ELSE Err([msg |-> "dispatch failed", by |-> "Subcommand"]),
         invoked |-> <<inv>>, store |-> sel]

\* The ExportBlocks arm asks the command's is_dev() before it forwards.
match_and_call_twice(s, method, args) ==
    LET self == sel[s]
        inv == Invoke(s, self.cmd, method, args, NoRoot)
    IN  IF self.variant = "ExportBlocks"
        THEN [ret |-> inv.ret,
              invoked |-> <<Invoke(s, self.cmd, "is_dev", <<>>, NoRoot), inv>>,
              store |-> sel]
        ELSE Forwarded(inv)

\* The is_dev argument is replaced by the command's own dev flag.
match_and_call_own_dev(s, method, args) ==
    LET self == sel[s]
        given == IF method \in {"chain_id", "pruning", "execution_strategies"}
                 THEN <<self.cmd.dev>> \o Tail(args)
                 ELSE args
    IN  Forwarded(Invoke(s, self.cmd, method, given, NoRoot))

\* The call leaves the selector holding the BuildSpec variant.
match_and_call_retag(s, method, args) ==
    LET self == sel[s]
        inv == Invoke(s, self.cmd, method, args, NoRoot)
    IN  [ret |-> inv.ret, invoked |-> <<inv>>,
         store |-> [sel EXCEPT ![s] =
                       Variant("BuildSpec", [type |-> "BuildSpecCmd", dev |-> self.cmd.dev])]]

\* The arms forward to one shared command (that of a) instead of self's.
match_and_call_shared(s, method, args) ==
    Forwarded(Invoke("a", sel["a"].cmd, method, args, NoRoot))

\* A repeated question is answered from the previous call's result.
match_and_call_cached(s, method, args) ==
    LET self == sel[s] IN
    IF last.sel = s /\ last.method = method /\ last.args = args
    THEN [ret |-> last.ret, invoked |-> <<>>, store |-> sel]
    ELSE Forwarded(Invoke(s, self.cmd, method, args, NoRoot))

\* The generic rule runs the method a second time when the first run failed.
match_and_call_generic_retry(s, method, C, args) ==
    LET self == sel[s]
        inv == Invoke(s, self.cmd, method, args, C)
    IN  IF inv.ret.ok THEN Forwarded(inv)
        ELSE [ret |-> inv.ret, invoked |-> <<inv, inv>>, store |-> sel]

\* The generic rule names a fixed root type instead of C.
match_and_call_generic_fixed_root(s, method, C, args) ==
    Forwarded(Invoke(s, sel[s].cmd, method, args, "NodeCli"))

\* First rule of the macro: fn $method(&self, $($arg: $ty),*) -> $result.
match_and_call(s, method, args) ==
    LET self == sel[s] IN
    CASE self.variant = "BuildSpec" ->
           Forwarded(Invoke(s, self.cmd, method, args, NoRoot))
      [] self.variant = "ExportBlocks" ->
           Forwarded(Invoke(s, self.cmd, method, args, NoRoot))
      [] self.variant = "ImportBlocks" ->
           Forwarded(Invoke(s, self.cmd, method, args, NoRoot))
      [] self.variant = "CheckBlock" ->
           Forwarded(Invoke(s, self.cmd, method, args, NoRoot))
      [] self.variant = "Revert" ->
           Forwarded(Invoke(s, self.cmd, method, args, NoRoot))
      [] self.variant = "PurgeChain" ->
           Forwarded(Invoke(s, self.cmd, method, args, NoRoot))

\* Second rule of the macro: fn $method<C: SubstrateCLI>(&self, ...) -> $result,
\* each arm calling cmd.$method::<C>(...).
match_and_call_generic(s, method, C, args) ==
    LET self == sel[s] IN
    CASE self.variant = "BuildSpec" ->
           Forwarded(Invoke(s, self.cmd, method, args, C))
      [] self.variant = "ExportBlocks" ->
           Forwarded(Invoke(s, self.cmd, method, args, C))
      [] self.variant = "ImportBlocks" ->
           Forwarded(Invoke(s, self.cmd, method, args, C))
      [] self.variant = "CheckBlock" ->
           Forwarded(Invoke(s, self.cmd, method, args, C))
      [] self.variant = "Revert" ->
           Forwarded(Invoke(s, self.cmd, method, args, C))
      [] self.variant = "PurgeChain" ->
           Forwarded(Invoke(s, self.cmd, method, args, C))

----------------------------------------------------------------------------
\* impl CliConfiguration for Subcommand, driven by the startup sequence
----------------------------------------------------------------------------

\* Number of selector calls made so far, over all methods.
CallsMade ==
    selCalls["base_path"] + selCalls["is_dev"] + selCalls["database_config"]
      + selCalls["chain_id"] + selCalls["init"] + selCalls["pruning"]
      + selCalls["tracing_receiver"] + selCalls["tracing_targets"]
      + selCalls["state_cache_size"] + selCalls["wasm_method"]
      + selCalls["execution_strategies"] + selCalls["database_cache_size"]
      + selCalls["node_key"]

\* Number of invocations of `method` among the invocations made by one call.
CountInv(invoked, method) ==
    Cardinality({i \in DOMAIN invoked : invoked[i].method = method})

NoCall ==
    [sel |-> "-", method |-> "-", args |-> <<>>, root |-> NoRoot, world |-> "-",
     ret |-> Err("-"), invoked |-> <<>>, before |-> <<>>]

\* The driver calls `method` on the Subcommand owned by s; r is what the
\* forwarding method did.  `before` remembers the previous call's result when
\* that call was the very same question.
Call(s, method, args, root, r) ==
    /\ CallsMade < MaxCalls
    /\ sel' = r.store
    /\ selCalls' = [selCalls EXCEPT ![method] = @ + 1]
    /\ cmdCalls' = [m \in Methods |-> cmdCalls[m] + CountInv(r.invoked, m)]
    /\ last' = [sel |-> s, method |-> method, args |-> args, root |-> root,
                world |-> world, ret |-> r.ret, invoked |-> r.invoked,
                before |-> IF /\ last.sel = s
                              /\ last.method = method
                              /\ last.args = args
                              /\ last.root = root
                           THEN <<last.ret>> ELSE <<>>]
    /\ UNCHANGED world

base_path(s) ==
    Call(s, "base_path", <<>>, NoRoot, match_and_call(s, "base_path", <<>>))

is_dev(s) ==
    Call(s, "is_dev", <<>>, NoRoot, match_and_call(s, "is_dev", <<>>))

database_config(s) ==
    \E bp \in Paths, cache_size \in OptSizes :
        Call(s, "database_config", <<bp, cache_size>>, NoRoot,
             match_and_call(s, "database_config", <<bp, cache_size>>))

chain_id(s) ==
    \E dev \in BOOLEAN :
        Call(s, "chain_id", <<dev>>, NoRoot, match_and_call(s, "chain_id", <<dev>>))

init(s) ==
    \E C \in RootTypes :
        Call(s, "init", <<>>, C, match_and_call_generic(s, "init", C, <<>>))

pruning(s) ==
    \E dev \in BOOLEAN, roles \in RolesSet :
        Call(s, "pruning", <<dev, roles>>, NoRoot,
             match_and_call(s, "pruning", <<dev, roles>>))

tracing_receiver(s) ==
    Call(s, "tracing_receiver", <<>>, NoRoot, match_and_call(s, "tracing_receiver", <<>>))

tracing_targets(s) ==
    Call(s, "tracing_targets", <<>>, NoRoot, match_and_call(s, "tracing_targets", <<>>))

state_cache_size(s) ==
    Call(s, "state_cache_size", <<>>, NoRoot, match_and_call(s, "state_cache_size", <<>>))

wasm_method(s) ==
    Call(s, "wasm_method", <<>>, NoRoot, match_and_call(s, "wasm_method", <<>>))

execution_strategies(s) ==
    \E dev \in BOOLEAN :
        Call(s, "execution_strategies", <<dev>>, NoRoot,
             match_and_call(s, "execution_strategies", <<dev>>))

database_cache_size(s) ==
    Call(s, "database_cache_size", <<>>, NoRoot,
         match_and_call(s, "database_cache_size", <<>>))

node_key(s) ==
    \E net_config_dir \in Paths :
        Call(s, "node_key", <<net_config_dir>>, NoRoot,
             match_and_call(s, "node_key", <<net_config_dir>>))

\* The outside world changes before a further call (a file is edited, removed).
WorldChanges ==
    /\ CallsMade < MaxCalls
    /\ world' \in Worlds \ {world}
    /\ UNCHANGED <<sel, selCalls, cmdCalls, last>>

\* The variant declared after v in the enum, cyclically.
NextVariant(v) ==
    CASE v = "BuildSpec"    -> "ExportBlocks"
      [] v = "ExportBlocks" -> "ImportBlocks"
      [] v = "ImportBlocks" -> "CheckBlock"
      [] v = "CheckBlock"   -> "Revert"
      [] v = "Revert"       -> "PurgeChain"
      [] v = "PurgeChain"   -> "BuildSpec"

\* What the argument parser may have built: a is a Subcommand of any variant,
\* parsed with --dev; b is one of another variant, parsed without.
Parsed ==
    {st \in [SelIds -> Subcommand] :
        /\ st["b"].variant = NextVariant(st["a"].variant)
        /\ st["a"].cmd.dev
        /\ ~st["b"].cmd.dev}

\* The argument parser has built the Subcommand values; nothing was called yet.
Init ==
    /\ sel \in Parsed
    /\ world = "w0"
    /\ selCalls = [m \in Methods |-> 0]
    /\ cmdCalls = [m \in Methods |-> 0]
    /\ last = NoCall

Next ==
    \/ \E s \in SelIds : base_path(s)
    \/ \E s \in SelIds : is_dev(s)
    \/ \E s \in SelIds : database_config(s)
    \/ \E s \in SelIds : chain_id(s)
    \/ \E s \in SelIds : init(s)
    \/ \E s \in SelIds : pruning(s)
    \/ \E s \in SelIds : tracing_receiver(s)
    \/ \E s \in SelIds : tracing_targets(s)
    \/ \E s \in SelIds : state_cache_size(s)
    \/ \E s \in SelIds : wasm_method(s)
    \/ \E s \in SelIds : execution_strategies(s)
    \/ \E s \in SelIds : database_cache_size(s)
    \/ \E s \in SelIds : node_key(s)
    \/ WorldChanges

Spec == Init /\ [][Next]_vars

----------------------------------------------------------------------------
\* Properties
----------------------------------------------------------------------------

\* A selector call has been made.
Called == last.method # "-"

\* The Subcommand the last call was made on, and the command it holds.
LastSelf == sel[last.sel]
Held == LastSelf.cmd

\* c.M(inputs): the held command asked directly, in the world of the last call.
Direct == CmdMethod(Held, last.method, last.args, last.root, last.world)

\* The contract methods that take inputs besides &self.
WithInputs ==
    {"database_config", "chain_id", "pruning", "execution_strategies", "node_key"}

\* C1 Forwarding fidelity: whatever the variant, the method and the inputs,
\* the selector returns exactly what the held command's same method returns
\* for the same inputs: the identical success value or the identical error.
C1_ForwardingFidelity ==
    Called => last.ret = Direct

\* A BuildSpec selector asked for base_path answered with its command's value.
C1_Witness ==
    /\ Called
    /\ last.method = "base_path"
    /\ LastSelf.variant = "BuildSpec"
    /\ last.ret.ok
    /\ last.ret = Ok([by |-> Held, method |-> "base_path", args |-> <<>>,
                      root |-> NoRoot, world |-> last.world])

\* C2 Transparent error conduit: the selector call fails exactly when the held
\* command's same method fails, and then with exactly that command's error
\* (its own message, not a wrapped or generic one); it never fails when the
\* command succeeded.
C2_ErrorConduit ==
    Called =>
        /\ last.ret.ok <=> Direct.ok
        /\ ~Direct.ok =>
              /\ ~last.ret.ok
              /\ last.ret.err = Direct.err
              /\ last.ret.err.msg = ErrMsg(last.method)
              /\ last.ret.err.by = Held.type

\* A PurgeChain selector whose database_config failed with "invalid path".
C2_Witness ==
    /\ Called
    /\ last.method = "database_config"
    /\ LastSelf.variant = "PurgeChain"
    /\ ~last.ret.ok
    /\ last.ret.err = [msg |-> "invalid path", by |-> "PurgeChainCmd"]

\* C3 Totality and exact target: every call of a method on a selector of any
\* variant is dispatched and invokes exactly one method of exactly one
\* command: the same-named method of the command the selector holds, which is
\* of the type of its variant.
C3_ExactTarget ==
    Called =>
        /\ Len(last.invoked) = 1
        /\ \A i \in DOMAIN last.invoked :
              /\ last.invoked[i].method = last.method
              /\ last.invoked[i].owner = last.sel
              /\ last.invoked[i].cmd = Held
              /\ last.invoked[i].cmd.type = CmdTypeOf(LastSelf.variant)

\* A Revert selector asked for wasm_method invoked RevertCmd's wasm_method once.
C3_Witness ==
    /\ Called
    /\ last.method = "wasm_method"
    /\ LastSelf.variant = "Revert"
    /\ Len(last.invoked) = 1
    /\ last.invoked[1].method = "wasm_method"
    /\ last.invoked[1].cmd.type = "RevertCmd"

\* C4 Argument pass-through: for every method that takes inputs, the held
\* command's method receives exactly the argument values the caller gave, in
\* the same order; never a value the selector computed or a default.
C4_ArgumentPassThrough ==
    (Called /\ last.method \in WithInputs) =>
        /\ last.invoked # <<>>
        /\ \A i \in DOMAIN last.invoked : last.invoked[i].args = last.args

\* pruning(is_dev = false, roles) on an ExportBlocks selector whose own command
\* is in dev mode: the command received is_dev = false.
C4_Witness ==
    /\ Called
    /\ last.method = "pruning"
    /\ LastSelf.variant = "ExportBlocks"
    /\ Held.dev
    /\ last.args = <<FALSE, "AUTHORITY">>
    /\ last.invoked[1].args = <<FALSE, "AUTHORITY">>

\* C5 The active variant is fixed at construction: no step, whatever method is
\* called with whatever arguments and whether it succeeds or fails, changes
\* the variant a selector holds.
C5_VariantFixed ==
    [][\A s \in SelIds : sel'[s].variant = sel[s].variant]_vars

\* Two calls were made on Revert selector a, the last one failed, and a is
\* still Revert.
C5_Witness ==
    /\ Called
    /\ CallsMade >= 2
    /\ last.sel = "a"
    /\ ~last.ret.ok
    /\ last.before # <<>>
    /\ sel["a"].variant = "Revert"

\* What every contract method would answer now on the Subcommand owned by o.
ResultsOn(o) ==
    [m \in Methods |-> CmdMethod(sel[o].cmd, m, <<>>, NoRoot, world)]

\* C6 No cross-talk: a call on one selector invokes only that selector's own
\* command and leaves every other selector, its held command and the result
\* of every contract method on it unchanged.
C6_NoCrossTalk ==
    [][selCalls' # selCalls =>
          \A o \in SelIds \ {last'.sel} :
              /\ sel'[o] = sel[o]
              /\ ResultsOn(o)' = ResultsOn(o)
              /\ \A i \in DOMAIN last'.invoked : last'.invoked[i].owner # o]_vars

\* A call was made on a while b holds another variant and was never called.
C6_Witness ==
    /\ Called
    /\ last.sel = "a"
    /\ last.before # <<>>
    /\ sel["a"].variant = "BuildSpec"
    /\ sel["b"].variant = "ExportBlocks"

\* C7 Single invocation of initialization: each selector init call causes
\* exactly one init of the held command, so a startup sequence that calls the
\* selector's init once runs the command's init once; no other contract
\* method of the selector invokes the command's init.
C7_SingleInit ==
    /\ cmdCalls["init"] = selCalls["init"]
    /\ Called =>
          CountInv(last.invoked, "init") = (IF last.method = "init" THEN 1 ELSE 0)

\* A startup sequence that called init once and then another method.
C7_Witness ==
    /\ selCalls["init"] = 1
    /\ cmdCalls["init"] = 1
    /\ CallsMade = 2
    /\ last.method # "init"

\* C8 No caching: every selector call of a method invokes the held command's
\* method again and returns what that invocation produces in the world as it
\* is now, even if the same question was answered differently before; per
\* method, concrete invocations equal selector calls.
C8_NoCaching ==
    /\ \A m \in Methods : cmdCalls[m] = selCalls[m]
    /\ Called =>
          /\ last.invoked # <<>>
          /\ LET inv == last.invoked[Len(last.invoked)] IN
                /\ inv.world = last.world
                /\ inv.ret = CmdMethod(inv.cmd, inv.method, inv.args, inv.root, last.world)
                /\ last.ret = inv.ret

\* The same question was asked twice in a row and answered differently.
C8_Witness ==
    /\ Called
    /\ last.before # <<>>
    /\ last.before[1] # last.ret
    /\ last.before[1].ok
    /\ last.ret.ok
    /\ selCalls[last.method] = 2

C10_InitRootType ==
    (Called /\ last.method = "init") =>
        /\ last.invoked # <<>>
        /\ \A i \in DOMAIN last.invoked : last.invoked[i].root = last.root
        /\ last.ret.ok => last.ret.val.root = last.root

\* init::<OtherCli> on a CheckBlock selector reached CheckBlockCmd's init::<OtherCli>.
C10_Witness ==
    /\ Called
    /\ last.method = "init"
    /\ last.root = "OtherCli"
    /\ LastSelf.variant = "CheckBlock"
    /\ last.ret.ok
    /\ last.invoked[1].root = "OtherCli"

====
